---------------------------- MODULE Spec2Model ----------------------------
(***************************************************************************)
(* Code/GraphMol/MolStandardize/Charge.cpp: Reionizer::reionizeInPlace     *)
(* with its two catalog scans, and Uncharger::unchargeInPlace.             *)
(*                                                                         *)
(* A molecule is a function from atom indices to atom records.  The        *)
(* substructure matcher, the valence bookkeeping of Atom and the canonical *)
(* ranker live outside Charge.cpp; they are modelled by what Charge.cpp    *)
(* relies on:                                                              *)
(*   - a catalog or correction pattern is a query on its reactive atom     *)
(*     (element and formal charge); when several atoms match, the matcher  *)
(*     may report any of them (the code takes whatever comes first);       *)
(*   - the four Uncharger patterns are the SMARTS of the constructor,      *)
(*     evaluated on charge, hydrogen count and neighbours;                 *)
(*   - the canonical ranker answers with some permutation of the atoms.    *)
(***************************************************************************)
EXTENDS Integers, Sequences, FiniteSets, TLC

VARIABLES
    mol,             \* RWMol &mol: atom index -> atom record
    nbrs,            \* mol.getAtomNeighbors: atom -> its neighbours, in
                     \* the order the iterator gives them
    pc,              \* position in the running call
    abpairs,         \* d_abcat's pairs: sequence of [first, second] patterns
    start_charge,    \* reionizeInPlace: int start_charge
    current_charge,  \* reionizeInPlace: int current_charge
    charge_diff,     \* reionizeInPlace: int charge_diff
    already_moved,   \* reionizeInPlace: std::set of sorted index pairs
    transfers,       \* history: proton transfers done by the balancing loop
    sumDelta,        \* history: sum of (cc.Charge - charge before) over
                     \* the rule applications of the correction loop
    lastCC,          \* history: the rule the correction loop applied last
    balanceEntry,    \* history: mol at entry of the balancing loop
    stop,            \* history: why the balancing loop was left
    df_force,        \* Uncharger::df_force
    df_canonicalOrdering, \* Uncharger::df_canonicalOrdering
    canon,           \* what Canon::rankMolAtoms answers for mol
    q_matched,       \* unchargeInPlace: unsigned int q_matched
    neg_atoms,       \* unchargeInPlace: vector of (rank, idx) pairs
    p_idx_matches,   \* unchargeInPlace: atoms of p_matches, in match order
    neg_surplus,     \* unchargeInPlace: int neg_surplus
    netCharge,       \* unchargeInPlace: int netCharge
    negIt,           \* position of the negative pass in neg_atoms
    posIt,           \* position of the positive pass in p_idx_matches
    call,            \* history: number of the unchargeInPlace call running
    molCall,         \* history: mol at entry of the running call
    afterFirst,      \* history: mol as the first call left it
    neutralized      \* history: atoms the negative pass neutralized

rvars == <<mol, nbrs, pc, abpairs, start_charge, current_charge,
           charge_diff, already_moved, transfers, sumDelta, lastCC,
           balanceEntry, stop>>

uvars == <<df_force, df_canonicalOrdering, canon, q_matched, neg_atoms,
           p_idx_matches, neg_surplus, netCharge, negIt, posIt, call, molCall,
           afterFirst, neutralized>>

vars == <<rvars, uvars>>

-----------------------------------------------------------------------------
(* Bounds *)

\* number of atoms of the molecule handed to reionizeInPlace
MaxAtoms == 3
\* number of acid/base pairs in the catalog
MaxPairs == 2

Atoms == 1..MaxAtoms

-----------------------------------------------------------------------------
(* Helpers *)

Max(a, b) == IF a >= b THEN a ELSE b

\* sum of f[x] over the finite set S
SumOver(S, f) ==
    LET sum[T \in SUBSET S] ==
            IF T = {} THEN 0
            ELSE LET x == CHOOSE y \in T : TRUE IN f[x] + sum[T \ {x}]
    IN sum[S]

\* MolOps::getFormalCharge(mol): the sum of the atoms' formal charges
getFormalCharge(m) == SumOver(DOMAIN m, [a \in DOMAIN m |-> m[a].fc])

-----------------------------------------------------------------------------
(* Atoms of the Reionizer model: every atom is an amphoteric site, a       *)
(* hydroxyl-like oxygen with one single bond that is ionized (-1), neutral *)
(* (0) or protonated (+1).                                                 *)

RElems == {"O"}

\* the charge states a site takes
RCharges(e) == {-1, 0, 1}

\* PeriodicTable::getValenceList(atomicNum)
getValenceList(e) == IF e = "O" THEN {2} ELSE {3}

\* valence used by the bonds to heavy atoms
BondValence(e) == IF e = "O" THEN 1 ELSE 3

\* Atom::getIsAromatic: the sites modelled are not aromatic
getIsAromatic(at) == FALSE

\* Atom::calcImplicitValence, as Atom::updatePropertyCache leaves it
calcImplicitHs(at) ==
    IF at.noImplicit THEN 0
    ELSE LET v == CHOOSE x \in getValenceList(at.elem) : TRUE
         IN Max(0, v + at.fc - BondValence(at.elem) - at.explH)

\* Atom::updatePropertyCache: recompute the cached implicit hydrogen count
updatePropertyCache(at) == [at EXCEPT !.implH = calcImplicitHs(at)]

\* Atom::getNumImplicitHs
getNumImplicitHs(at) == IF at.noImplicit THEN 0 ELSE at.implH

\* Atom::getTotalNumHs
getTotalNumHs(at) == at.explH + getNumImplicitHs(at)

\* Atom::getTotalValence: explicit plus implicit valence, as cached
getTotalValence(at) == BondValence(at.elem) + at.explH + at.implH

\* an atom as the parser leaves it: hydrogens implicit, cache up to date
RAtom(e, c) ==
    updatePropertyCache([elem |-> e, fc |-> c, explH |-> 0, implH |-> 0,
                         noImplicit |-> FALSE])

RAtomStates == UNION {{RAtom(e, c) : c \in RCharges(e)} : e \in RElems}

\* a pattern queries the element and formal charge of its reactive atom
Pattern(e, c) == [elem |-> e, fc |-> c]

\* protonated patterns match a site that can lose a proton, ionized
\* patterns one that can take a proton
ProtPatterns == {Pattern(e, c) : e \in RElems, c \in {0, 1}}
IonPatterns  == {Pattern(e, c) : e \in RElems, c \in {-1, 0}}

\* ChargeCorrection: {Name, Smarts, Charge}; Smarts is what is matched.
\* A rule whose Charge is the charge its Smarts asks for changes nothing
\* and is left out.
ChargeCorrections ==
    {cc \in [Smarts : ProtPatterns \cup IonPatterns, Charge : {-1, 0, 1}] :
        cc.Charge \in RCharges(cc.Smarts.elem) \ {cc.Smarts.fc}}

\* no rule applied (yet, or any more)
NoCC == [Smarts |-> Pattern("none", 0), Charge |-> 0]

\* SubstructMatch(mol, pattern, ...): the atoms the pattern's reactive atom
\* can be mapped to
SubstructMatch(m, pat) ==
    {a \in DOMAIN m : m[a].elem = pat.elem /\ m[a].fc = pat.fc}

-----------------------------------------------------------------------------
(* Reionizer::strongestProtonated and Reionizer::weakestIonized            *)

None == [found |-> FALSE]

RECURSIVE spScan(_, _, _)
\* the range-for of strongestProtonated from `position` on
spScan(m, pairs, position) ==
    IF position >= Len(pairs) THEN None
    ELSE LET res == SubstructMatch(m, pairs[position + 1].first)
         IN IF res # {}
            THEN [found |-> TRUE, first |-> position, second |-> res]
            ELSE spScan(m, pairs, position + 1)

strongestProtonated(m, pairs) == spScan(m, pairs, 0)

\* a slip: the position in the reversed scan is reported as the rank
wiRank_reversedIndex(size, position) == position

\* what weakestIonized reports as the rank of the pair found at `position`
\* of the reversed scan
wiRank(size, position) == size - position - 1

RECURSIVE wiScan(_, _, _)
\* the range-for of weakestIonized over boost::adaptors::reverse(abpairs)
wiScan(m, pairs, position) ==
    IF position >= Len(pairs) THEN None
    ELSE LET res == SubstructMatch(m, pairs[Len(pairs) - position].second)
         IN IF res # {}
            THEN [found |-> TRUE, first |-> wiRank(Len(pairs), position),
                  second |-> res]
            ELSE wiScan(m, pairs, position + 1)

weakestIonized(m, pairs) == wiScan(m, pairs, 0)

-----------------------------------------------------------------------------
(* Reionizer::reionizeInPlace                                              *)

\* a slip: the rule's charge is added to the atom's charge
applyCorrection_adds(at, cc) == [at EXCEPT !.fc = at.fc + cc.Charge]

\* line 129: atom->setFormalCharge(cc.Charge)
applyCorrection(at, cc) == [at EXCEPT !.fc = cc.Charge]

\* a slip: the site loses two charges
ionizeToBalance_byTwo(at) ==
    updatePropertyCache([at EXCEPT !.fc = at.fc - 2])

\* lines 159-166: ionize the strongest protonated site
ionizeToBalance(at) ==
    LET a1 == [at EXCEPT !.fc = at.fc - 1]
        a2 == IF a1.explH > 0 THEN [a1 EXCEPT !.explH = a1.explH - 1] ELSE a1
    IN updatePropertyCache(a2)

\* a slip: the hydrogen goes, the charge stays
removeProton_keepsCharge(at) ==
    updatePropertyCache(IF getNumImplicitHs(at) = 0 /\ at.explH > 0
                        THEN [at EXCEPT !.explH = at.explH - 1] ELSE at)

\* lines 214-223: remove hydrogen from strongest protonated
removeProton(at) ==
    LET a1 == [at EXCEPT !.fc = at.fc - 1]
        a2 == IF getNumImplicitHs(a1) = 0 /\ a1.explH > 0
              THEN [a1 EXCEPT !.explH = a1.explH - 1] ELSE a1
    IN updatePropertyCache(a2)

\* lines 226-241: add hydrogen to weakest ionized; patom is the acid atom
addProton(at, patom) ==
    LET a1 == [at EXCEPT !.fc = at.fc + 1]
        found == getTotalValence(a1) \in getValenceList(a1.elem)
        a2 == IF \/ a1.noImplicit
                 \/ (patom.elem \in {"N", "P"} /\ getIsAromatic(patom))
                 \/ ~found
              THEN [a1 EXCEPT !.explH = a1.explH + 1] ELSE a1
    IN updatePropertyCache(a2)

\* a slip: an acid of equal rank is let through
rankAllows_orEqual(ppos, ipos) == ppos <= ipos

\* line 186: the transfer is considered only for a strictly stronger acid
rankAllows(ppos, ipos) == ppos < ipos

\* a slip: the key is not sorted
movedKey_unsorted(pa, ia) == <<pa, ia>>

\* lines 194-195: key = {poccur.back(), ioccur.back()}, sorted
movedKey(pa, ia) == IF pa <= ia THEN <<pa, ia>> ELSE <<ia, pa>>

\* a slip: the lookup never finds the key
is_in_never(key, moved) == FALSE

\* line 196: is_in
is_in(key, moved) == key \in moved

\* lines 112-115
ReionizeEnter ==
    /\ pc = "start"
    /\ start_charge' = getFormalCharge(mol)
    /\ pc' = "corr"
    /\ UNCHANGED <<mol, nbrs, abpairs, current_charge, charge_diff,
                   already_moved, transfers, sumDelta, lastCC,
                   balanceEntry, stop>>
    /\ UNCHANGED uvars

\* lines 117-133, the next rule of d_ccs (a list of any length): every atom
\* of every match gets cc.Charge
ApplyCorrection ==
    /\ pc = "corr"
    /\ \E cc \in ChargeCorrections :
          LET res == SubstructMatch(mol, cc.Smarts)
          IN /\ mol' = [a \in Atoms |->
                           IF a \in res THEN applyCorrection(mol[a], cc)
                           ELSE mol[a]]
             /\ sumDelta' = sumDelta +
                    SumOver(res, [a \in Atoms |-> cc.Charge - mol[a].fc])
             /\ lastCC' = cc
    /\ UNCHANGED <<nbrs, pc, abpairs, start_charge, current_charge,
                   charge_diff, already_moved, transfers,
                   balanceEntry, stop>>
    /\ UNCHANGED uvars

\* a slip: the charge at entry is left out of charge_diff
EndCorrections_diffFromZero ==
    /\ pc = "corr"
    /\ current_charge' = getFormalCharge(mol)
    /\ charge_diff' = current_charge'
    /\ IF current_charge' # 0
       THEN pc' = "deficit" /\ UNCHANGED balanceEntry
       ELSE pc' = "balance" /\ balanceEntry' = mol
    /\ lastCC' = NoCC
    /\ UNCHANGED <<mol, nbrs, abpairs, start_charge, already_moved,
                   transfers, sumDelta, stop>>
    /\ UNCHANGED uvars

\* lines 134-143, d_ccs being exhausted: current_charge, charge_diff, and
\* the test that guards the compensation loop
EndCorrections ==
    /\ pc = "corr"
    /\ current_charge' = getFormalCharge(mol)
    /\ charge_diff' = current_charge' - start_charge
    /\ IF current_charge' # 0
       THEN pc' = "deficit" /\ UNCHANGED balanceEntry
       ELSE pc' = "balance" /\ balanceEntry' = mol
    /\ lastCC' = NoCC
    /\ UNCHANGED <<mol, nbrs, abpairs, start_charge, already_moved,
                   transfers, sumDelta, stop>>
    /\ UNCHANGED uvars

\* lines 144-168: one pass of while (charge_diff > 0) that finds a site
DeficitIonize ==
    /\ pc = "deficit"
    /\ charge_diff > 0
    /\ LET res == strongestProtonated(mol, abpairs)
       IN /\ res.found
          /\ \E pa \in res.second :
                mol' = [mol EXCEPT ![pa] = ionizeToBalance(mol[pa])]
    /\ charge_diff' = charge_diff - 1
    /\ UNCHANGED <<nbrs, pc, abpairs, start_charge, current_charge,
                   already_moved, transfers, sumDelta, lastCC,
                   balanceEntry, stop>>
    /\ UNCHANGED uvars

\* lines 144, 149-150: the loop ends (charge_diff <= 0, or no site: break)
DeficitExit ==
    /\ pc = "deficit"
    /\ \/ charge_diff <= 0
       \/ ~strongestProtonated(mol, abpairs).found
    /\ pc' = "balance"
    /\ balanceEntry' = mol
    /\ UNCHANGED <<mol, nbrs, abpairs, start_charge, current_charge,
                   charge_diff, already_moved, transfers, sumDelta,
                   lastCC, stop>>
    /\ UNCHANGED uvars

\* lines 181, 186, 242-247: a site is missing, or the acid is not stronger
BalanceStop ==
    /\ pc = "balance"
    /\ LET sp_res == strongestProtonated(mol, abpairs)
           wi_res == weakestIonized(mol, abpairs)
       IN IF sp_res.found /\ wi_res.found
          THEN /\ ~rankAllows(sp_res.first, wi_res.first)
               /\ stop' = "rank"
          ELSE stop' = "absent"
    /\ pc' = "done"
    /\ UNCHANGED <<mol, nbrs, abpairs, start_charge, current_charge,
                   charge_diff, already_moved, transfers, sumDelta,
                   lastCC, balanceEntry>>
    /\ UNCHANGED uvars

\* lines 187-192: both scans end on the same atom
BalanceAbortSameAtom ==
    /\ pc = "balance"
    /\ LET sp_res == strongestProtonated(mol, abpairs)
           wi_res == weakestIonized(mol, abpairs)
       IN /\ sp_res.found /\ wi_res.found
          /\ rankAllows(sp_res.first, wi_res.first)
          /\ \E pa \in sp_res.second, ia \in wi_res.second : pa = ia
    /\ stop' = "same_atom"
    /\ pc' = "done"
    /\ UNCHANGED <<mol, nbrs, abpairs, start_charge, current_charge,
                   charge_diff, already_moved, transfers, sumDelta,
                   lastCC, balanceEntry>>
    /\ UNCHANGED uvars

\* a slip: the abort puts the molecule back as the loop found it
BalanceAbortAlreadyMoved_rollsBack ==
    /\ pc = "balance"
    /\ LET sp_res == strongestProtonated(mol, abpairs)
           wi_res == weakestIonized(mol, abpairs)
       IN /\ sp_res.found /\ wi_res.found
          /\ rankAllows(sp_res.first, wi_res.first)
          /\ \E pa \in sp_res.second, ia \in wi_res.second :
                /\ pa # ia
                /\ is_in(movedKey(pa, ia), already_moved)
    /\ stop' = "already_moved"
    /\ pc' = "done"
    /\ mol' = balanceEntry
    /\ UNCHANGED <<nbrs, abpairs, start_charge, current_charge,
                   charge_diff, already_moved, transfers, sumDelta,
                   lastCC, balanceEntry>>
    /\ UNCHANGED uvars

\* lines 194-202: the pair was moved before
BalanceAbortAlreadyMoved ==
    /\ pc = "balance"
    /\ LET sp_res == strongestProtonated(mol, abpairs)
           wi_res == weakestIonized(mol, abpairs)
       IN /\ sp_res.found /\ wi_res.found
          /\ rankAllows(sp_res.first, wi_res.first)
          /\ \E pa \in sp_res.second, ia \in wi_res.second :
                /\ pa # ia
                /\ is_in(movedKey(pa, ia), already_moved)
    /\ stop' = "already_moved"
    /\ pc' = "done"
    /\ UNCHANGED <<mol, nbrs, abpairs, start_charge, current_charge,
                   charge_diff, already_moved, transfers, sumDelta,
                   lastCC, balanceEntry>>
    /\ UNCHANGED uvars

\* lines 203-241: record the pair and move the proton
BalanceTransfer ==
    /\ pc = "balance"
    /\ LET sp_res == strongestProtonated(mol, abpairs)
           wi_res == weakestIonized(mol, abpairs)
       IN /\ sp_res.found /\ wi_res.found
          /\ rankAllows(sp_res.first, wi_res.first)
          /\ \E pa \in sp_res.second, ia \in wi_res.second :
                /\ pa # ia
                /\ ~is_in(movedKey(pa, ia), already_moved)
                /\ already_moved' = already_moved \cup {movedKey(pa, ia)}
                /\ LET patom == removeProton(mol[pa])
                   IN mol' = [mol EXCEPT ![pa] = patom,
                                         ![ia] = addProton(mol[ia], patom)]
    /\ transfers' = transfers + 1
    /\ UNCHANGED <<nbrs, pc, abpairs, start_charge, current_charge,
                   charge_diff, sumDelta, lastCC, balanceEntry,
                   stop>>
    /\ UNCHANGED uvars

InitReionize ==
    /\ mol \in [Atoms -> RAtomStates]
    /\ nbrs = [a \in Atoms |-> <<>>]
    /\ abpairs \in [1..MaxPairs -> [first : ProtPatterns, second : IonPatterns]]
    /\ pc = "start"
    /\ start_charge = 0
    /\ current_charge = 0
    /\ charge_diff = 0
    /\ already_moved = {}
    /\ transfers = 0
    /\ sumDelta = 0
    /\ lastCC = NoCC
    /\ balanceEntry = mol
    /\ stop = "none"
    /\ df_force = FALSE
    /\ df_canonicalOrdering = FALSE
    /\ canon = <<>>
    /\ q_matched = 0
    /\ neg_atoms = <<>>
    /\ p_idx_matches = <<>>
    /\ neg_surplus = 0
    /\ netCharge = 0
    /\ negIt = 0
    /\ posIt = 0
    /\ call = 0
    /\ molCall = mol
    /\ afterFirst = <<>>
    /\ neutralized = {}

NextReionize ==
    \/ ReionizeEnter
    \/ ApplyCorrection
    \/ EndCorrections
    \/ DeficitIonize
    \/ DeficitExit
    \/ BalanceStop
    \/ BalanceAbortSameAtom
    \/ BalanceAbortAlreadyMoved
    \/ BalanceTransfer

SpecReionize == InitReionize /\ [][NextReionize]_vars

\* single-threaded, synchronous execution: a call that can take a step
\* takes it
FairSpecReionize == SpecReionize /\ WF_vars(NextReionize)

-----------------------------------------------------------------------------
(* Uncharger: the molecules it is run on                                   *)

\* number of atoms of the molecules unchargeInPlace is run on
MaxUAtoms == 4
\* largest number of neighbours of an anion
MaxDegree == 2

UAtoms == 1..MaxUAtoms

\* the elements of a sequence
URange(s) == {s[i] : i \in DOMAIN s}

\* the atoms of S in ascending index order
AscendingSeq(S) ==
    LET asc[T \in SUBSET S] ==
            IF T = {} THEN <<>>
            ELSE LET x == CHOOSE x \in T : \A y \in T : x <= y
                 IN <<x>> \o asc[T \ {x}]
    IN asc[S]

\* isEarlyAtom(atomicNum): "B" stands for the early main-group elements
isEarlyAtom(e) == e = "B"

\* an atom as a molecule file gives it: h hydrogens, all of them implicit
UAtom(e, c, h) ==
    [elem |-> e, fc |-> c, explH |-> 0, implH |-> h, noImplicit |-> FALSE]

\* [O-]; an early-atom anion without and with a hydrogen
AnionStates == {UAtom("O", -1, 0), UAtom("B", -1, 0), UAtom("B", -1, 1)}

\* the carbon of a C=O group
NeutralStates == {UAtom("C", 0, 0)}

\* [NH+], [NH+2], the phosphorus of a [P+]=O group, an early-atom cation
\* with a hydrogen
CationStates ==
    {UAtom("N", 1, 1), UAtom("N", 2, 1), UAtom("P", 1, 0), UAtom("B", 1, 1)}

UAtomStates == AnionStates \cup NeutralStates \cup CationStates

KindOf(at) == IF at \in AnionStates THEN 1
              ELSE IF at \in NeutralStates THEN 2 ELSE 3

\* the atom carries a double bond to a neutral O or S (an atom no step of
\* the Uncharger touches)
hasOxo(at) == at.elem \in {"C", "P"}

\* sequences without repetition over S, of length at most n
RECURSIVE SeqsNoRep(_, _)

SeqsNoRep(S, n) ==
    IF n = 0 THEN {<<>>}
    ELSE {<<>>} \cup
         UNION {{<<x>> \o s : s \in SeqsNoRep(S \ {x}, n - 1)} : x \in S}

\* the bonds of m that the patterns look at lead from an anion to an atom
\* that is none; adj gives each anion its neighbour list
Adjacency(m, adj) ==
    [a \in DOMAIN m |->
        IF a \in DOMAIN adj THEN adj[a]
        ELSE AscendingSeq({x \in DOMAIN adj : a \in URange(adj[x])})]

\* the answers of Canon::rankMolAtoms the model draws from: ranks ascending
\* or descending with the atom index
iota(n) == [a \in 1..n |-> a - 1]
Rankings(n) == {iota(n), [a \in 1..n |-> n - a]}

-----------------------------------------------------------------------------
(* Uncharger: the four patterns                                            *)

\* [+,+2,+3,+4]
isPositive(at) == at.fc \in 1..4

\* the neighbours x of a with m[x] matching [-]
negNbrs(m, nb, a) == {x \in URange(nb[a]) : m[x].fc = -1}

\* [+,+2,+3,+4;!h0;!$(*~[-]),$(*(~[-])~[-])]
pos_h(m, nb, a) ==
    /\ isPositive(m[a])
    /\ getTotalNumHs(m[a]) # 0
    /\ \/ negNbrs(m, nb, a) = {}
       \/ Cardinality(negNbrs(m, nb, a)) >= 2

\* [+,+2,+3,+4;h0;!$(*~[-])]
pos_noh(m, nb, a) ==
    /\ isPositive(m[a])
    /\ getTotalNumHs(m[a]) = 0
    /\ negNbrs(m, nb, a) = {}

\* [-!$(*~[+,+2,+3,+4])]
neg(m, nb, a) ==
    /\ m[a].fc = -1
    /\ \A x \in URange(nb[a]) : ~isPositive(m[x])

\* another [O,S;-] (or, for the halates, [O-]) on the centre c
otherAnion(m, nb, a, c, elems) ==
    \E o \in URange(nb[c]) \ {a} : m[o].elem \in elems /\ m[o].fc = -1

\* the first three alternatives of neg_acid; the tetrazole alternatives
\* need an aromatic ring, and the molecules here have none
neg_acid(m, nb, a) ==
    /\ m[a].fc = -1
    /\ \E c \in URange(nb[a]) :
        \/ /\ m[a].elem \in {"O", "S"}
           /\ m[c].elem \in {"C", "S"} /\ m[c].fc = 0 /\ hasOxo(m[c])
        \/ /\ m[a].elem \in {"O", "S"}
           /\ m[c].elem \in {"N", "P"} /\ m[c].fc = 1 /\ hasOxo(m[c])
           /\ otherAnion(m, nb, a, c, {"O", "S"})
        \/ /\ m[a].elem = "O"
           /\ m[c].elem \in {"Cl", "Br", "I"} /\ m[c].fc \in 1..3
           /\ otherAnion(m, nb, a, c, {"O"})

\* a slip: the matcher reports every match twice
p_matches_twice(m, nb) ==
    AscendingSeq({a \in DOMAIN m : pos_h(m, nb, a)})
        \o AscendingSeq({a \in DOMAIN m : pos_h(m, nb, a)})

\* SubstructMatch for a one-atom pattern: the matching atoms, by index
p_matches(m, nb) == AscendingSeq({a \in DOMAIN m : pos_h(m, nb, a)})
q_matches(m, nb) == AscendingSeq({a \in DOMAIN m : pos_noh(m, nb, a)})
n_matches(m, nb) == AscendingSeq({a \in DOMAIN m : neg(m, nb, a)})
a_matches(m, nb) == AscendingSeq({a \in DOMAIN m : neg_acid(m, nb, a)})

-----------------------------------------------------------------------------
(* Uncharger: the negative-site list                                       *)

\* the loop summing the formal charges of the pos_noh matches
qMatchedOf(m, nb) ==
    SumOver(URange(q_matches(m, nb)), [a \in DOMAIN m |-> m[a].fc])

needsNeutralization(m, nb) ==
    /\ qMatchedOf(m, nb) > 0
    /\ Len(n_matches(m, nb)) > 0 \/ Len(a_matches(m, nb)) > 0

\* the ranks the lists are built with; ranking is rankMolAtoms's answer
atomRanks(m, nb, canonical, ranking) ==
    IF canonical /\ needsNeutralization(m, nb)
    THEN ranking
    ELSE iota(Len(m))

getRankIdxPair(ranks, aidx) == <<ranks[aidx], aidx>>

\* operator< of std::pair<int, int>
PairLess(p, q) == p[1] < q[1] \/ (p[1] = q[1] /\ p[2] < q[2])

SortPairs(S) ==
    LET sorted[T \in SUBSET S] ==
            IF T = {} THEN <<>>
            ELSE LET x == CHOOSE x \in T : \A y \in T \ {x} : PairLess(x, y)
                 IN <<x>> \o sorted[T \ {x}]
    IN sorted[S]

\* std::sort of a vector of pairs
stdSort(v) == SortPairs(URange(v))

\* std::transform with getRankIdxPair, then the sort under
\* df_canonicalOrdering
RankedMatches(matches, ranks, canonical) ==
    LET v == [i \in DOMAIN matches |-> getRankIdxPair(ranks, matches[i])]
    IN IF canonical THEN stdSort(v) ELSE v

n_atoms(m, nb, canonical, ranking) ==
    RankedMatches(n_matches(m, nb), atomRanks(m, nb, canonical, ranking),
                  canonical)

a_atoms(m, nb, canonical, ranking) ==
    RankedMatches(a_matches(m, nb), atomRanks(m, nb, canonical, ranking),
                  canonical)

\* a slip: the bits of the acid sites are not reset
nonAcids_all(m, nb, canonical, ranking) == DOMAIN m

nonAcids(m, nb, canonical, ranking) ==
    DOMAIN m \ {p[2] : p \in URange(a_atoms(m, nb, canonical, ranking))}

\* the first neighbour of idx, in iteration order, with a positive formal
\* charge; 0 if there is none
RECURSIVE firstPositiveNbr(_, _, _, _)

firstPositiveNbr(m, nb, idx, i) ==
    IF i > Len(nb[idx]) THEN 0
    ELSE IF m[nb[idx][i]].fc > 0 THEN nb[idx][i]
    ELSE firstPositiveNbr(m, nb, idx, i + 1)

markChargeSep_marksNeighbourOnly(marked, nbrIdx, idx) == marked \cup {nbrIdx}

\* the test and the two set() calls on the bitset skipChargeSep
markChargeSep(marked, nbrIdx, idx) ==
    IF nbrIdx \notin marked THEN marked \cup {nbrIdx} ELSE marked \cup {idx}

\* the first loop over a_atoms: the bits of skipChargeSep that end up set
skipChargeSep(m, nb, acids, i, marked) ==
    LET loop[k \in 1..(Len(acids) + 1), bits \in SUBSET DOMAIN m] ==
            IF k > Len(acids) THEN bits
            ELSE LET idx == acids[k][2]
                     nbrIdx == firstPositiveNbr(m, nb, idx, 1)
                 IN loop[k + 1, IF nbrIdx = 0 THEN bits
                                ELSE markChargeSep(bits, nbrIdx, idx)]
    IN loop[i, marked]

\* neg_atoms as the two push_back loops fill it
negAtomsOf(m, nb, canonical, ranking) ==
    LET acids == a_atoms(m, nb, canonical, ranking)
        keep == nonAcids(m, nb, canonical, ranking)
        skip == skipChargeSep(m, nb, acids, 1, {})
        nonAcid(p) == p[2] \in keep
        kept(p) == p[2] \notin skip
    IN SelectSeq(n_atoms(m, nb, canonical, ranking), nonAcid)
         \o SelectSeq(acids, kept)

\* neg_surplus before the negative pass
negSurplusOf(m, nb, canonical, ranking, force) ==
    Len(negAtomsOf(m, nb, canonical, ranking))
        - (IF force THEN 0 ELSE qMatchedOf(m, nb))

-----------------------------------------------------------------------------
(* Uncharger: the two passes                                               *)

\* a slip: the site's charge is raised by two
neutralizeNeg_byTwo(at, hDelta) ==
    updatePropertyCache([at EXCEPT !.explH = getTotalNumHs(at) + hDelta,
                                   !.noImplicit = TRUE,
                                   !.fc = at.fc + 2])

neutralizeNeg(at, hDelta) ==
    updatePropertyCache([at EXCEPT !.explH = getTotalNumHs(at) + hDelta,
                                   !.noImplicit = TRUE,
                                   !.fc = at.fc + 1])

canNeutralize_always(at) == TRUE

\* the value neutralizeNegIfPossible returns
canNeutralize(at) == ~(isEarlyAtom(at.elem) /\ getTotalNumHs(at) = 0)

neutralizeNegIfPossible(at) ==
    IF ~canNeutralize(at) THEN at
    ELSE neutralizeNeg(at, IF isEarlyAtom(at.elem) THEN -1 ELSE 1)

\* if (neg_surplus)
surplusAllows(surplus) == surplus # 0

\* where the negative pass goes after the site at position i
NegAdvance(i, surplus) ==
    IF surplus = 0 \/ i = Len(neg_atoms)
    THEN pc' = "net" /\ negIt' = negIt
    ELSE pc' = "neg" /\ negIt' = i + 1

\* lines 473-476
materializeHs(at) ==
    [at EXCEPT !.explH = getTotalNumHs(at), !.noImplicit = TRUE]

losesHydrogen_always(at) == TRUE

\* the hydrogen bookkeeping of one turn of the while loop
losesHydrogen(at) == at.elem # "C" /\ ~isEarlyAtom(at.elem)

\* a slip: the atom loses two charges in one turn
lowerCharge_byTwo(at) ==
    updatePropertyCache([at EXCEPT !.fc = at.fc - 2])

lowerCharge(at) ==
    LET low == [at EXCEPT !.fc = at.fc - 1]
    IN IF losesHydrogen(at)
       THEN IF low.explH >= 1
            THEN IF low.explH = 1
                 THEN [low EXCEPT !.explH = 0]
                 ELSE updatePropertyCache([low EXCEPT !.explH = low.explH - 1])
            ELSE updatePropertyCache(low)
       ELSE updatePropertyCache([low EXCEPT !.explH = low.explH + 1])

\* the break after the last hydrogen was removed
lastHydrogenGone(at) == losesHydrogen(at) /\ at.explH = 1

\* lines 498-500 and the for loop's step
PosAdvance(net) ==
    IF net = 0 \/ posIt = Len(p_idx_matches)
    THEN pc' = "udone" /\ posIt' = posIt
    ELSE pc' = "pos" /\ posIt' = posIt + 1

-----------------------------------------------------------------------------
(* Uncharger::unchargeInPlace                                              *)

\* the Reionizer's variables, which unchargeInPlace does not have
ronly == <<abpairs, start_charge, current_charge, charge_diff, already_moved,
           transfers, sumDelta, lastCC, balanceEntry, stop>>

\* lines 341-445: the matches, the ranks, neg_atoms and neg_surplus
UnchargeMatch ==
    /\ pc = "ustart"
    /\ molCall' = mol
    /\ neutralized' = {}
    /\ p_idx_matches' = p_matches(mol, nbrs)
    /\ q_matched' = qMatchedOf(mol, nbrs)
    /\ neg_atoms' = negAtomsOf(mol, nbrs, df_canonicalOrdering, canon)
    /\ neg_surplus' =
           negSurplusOf(mol, nbrs, df_canonicalOrdering, canon, df_force)
    /\ negIt' = 1
    /\ pc' = IF surplusAllows(neg_surplus') /\ Len(neg_atoms') > 0
             THEN "neg" ELSE "net"
    /\ UNCHANGED <<mol, nbrs, df_force, df_canonicalOrdering, canon,
                   netCharge, posIt, call, afterFirst>>
    /\ UNCHANGED ronly

\* one turn of the loop over neg_atoms: the site is neutralized
NegNeutralize ==
    /\ pc = "neg"
    /\ LET idx == neg_atoms[negIt][2]
       IN /\ canNeutralize(mol[idx])
          /\ mol' = [mol EXCEPT ![idx] = neutralizeNegIfPossible(mol[idx])]
          /\ neutralized' = neutralized \cup {idx}
    /\ neg_surplus' = neg_surplus - 1
    /\ NegAdvance(negIt, neg_surplus')
    /\ UNCHANGED <<nbrs, df_force, df_canonicalOrdering, canon, q_matched,
                   neg_atoms, p_idx_matches, netCharge, posIt, call, molCall,
                   afterFirst>>
    /\ UNCHANGED ronly

\* one turn of the loop over neg_atoms: neutralizeNegIfPossible returns false
NegSkip ==
    /\ pc = "neg"
    /\ ~canNeutralize(mol[neg_atoms[negIt][2]])
    /\ NegAdvance(negIt, neg_surplus)
    /\ UNCHANGED <<mol, nbrs, df_force, df_canonicalOrdering, canon,
                   q_matched, neg_atoms, p_idx_matches, neg_surplus,
                   netCharge, posIt, call, molCall, afterFirst, neutralized>>
    /\ UNCHANGED ronly

\* lines 458-471
NetCharge ==
    /\ pc = "net"
    /\ netCharge' = getFormalCharge(mol)
    /\ posIt' = 1
    /\ pc' = IF netCharge' > 0 /\ Len(p_idx_matches) > 0
             THEN "pos" ELSE "udone"
    /\ UNCHANGED <<mol, nbrs, df_force, df_canonicalOrdering, canon,
                   q_matched, neg_atoms, p_idx_matches, neg_surplus, negIt,
                   call, molCall, afterFirst, neutralized>>
    /\ UNCHANGED ronly

\* lines 473-476: the next atom of p_idx_matches
PosAtom ==
    /\ pc = "pos"
    /\ LET idx == p_idx_matches[posIt]
       IN mol' = [mol EXCEPT ![idx] = materializeHs(mol[idx])]
    /\ pc' = "while"
    /\ UNCHANGED <<nbrs, df_force, df_canonicalOrdering, canon, q_matched,
                   neg_atoms, p_idx_matches, neg_surplus, netCharge, negIt,
                   posIt, call, molCall, afterFirst, neutralized>>
    /\ UNCHANGED ronly

\* one turn of the while loop
PosLower ==
    /\ pc = "while"
    /\ LET idx == p_idx_matches[posIt]
       IN /\ mol[idx].fc > 0 /\ netCharge > 0
          /\ mol' = [mol EXCEPT ![idx] = lowerCharge(mol[idx])]
          /\ netCharge' = netCharge - 1
          /\ IF lastHydrogenGone(mol[idx])
             THEN PosAdvance(netCharge')
             ELSE pc' = "while" /\ posIt' = posIt
    /\ UNCHANGED <<nbrs, df_force, df_canonicalOrdering, canon, q_matched,
                   neg_atoms, p_idx_matches, neg_surplus, negIt, call,
                   molCall, afterFirst, neutralized>>
    /\ UNCHANGED ronly

\* the while condition fails
PosLeave ==
    /\ pc = "while"
    /\ ~(mol[p_idx_matches[posIt]].fc > 0 /\ netCharge > 0)
    /\ PosAdvance(netCharge)
    /\ UNCHANGED <<mol, nbrs, df_force, df_canonicalOrdering, canon,
                   q_matched, neg_atoms, p_idx_matches, neg_surplus,
                   netCharge, negIt, call, molCall, afterFirst, neutralized>>
    /\ UNCHANGED ronly

\* the caller runs unchargeInPlace on the result once more
UnchargeAgain ==
    /\ pc = "udone"
    /\ call = 1
    /\ call' = 2
    /\ afterFirst' = mol
    /\ canon' \in IF df_canonicalOrdering
                  THEN Rankings(MaxUAtoms) ELSE {canon}
    /\ pc' = "ustart"
    /\ UNCHANGED <<mol, nbrs, df_force, df_canonicalOrdering, q_matched,
                   neg_atoms, p_idx_matches, neg_surplus, netCharge, negIt,
                   posIt, molCall, neutralized>>
    /\ UNCHANGED ronly

\* the atoms are numbered anions first, cations last: the code compares
\* indices only inside one match list, and the atoms of a list are of one
\* kind
ByKind(m) ==
    \A a, b \in DOMAIN m : a < b => KindOf(m[a]) <= KindOf(m[b])

InitUncharge ==
    /\ mol \in [UAtoms -> UAtomStates]
    /\ ByKind(mol)
    /\ LET anions == {a \in UAtoms : mol[a] \in AnionStates}
       IN \E adj \in [anions -> SeqsNoRep(UAtoms \ anions, MaxDegree)] :
              nbrs = Adjacency(mol, adj)
    /\ df_force \in BOOLEAN
    /\ df_canonicalOrdering \in BOOLEAN
    /\ canon \in IF df_canonicalOrdering
                 THEN Rankings(MaxUAtoms) ELSE {iota(MaxUAtoms)}
    /\ pc = "ustart"
    /\ call = 1
    /\ molCall = mol
    /\ afterFirst = mol
    /\ neutralized = {}
    /\ q_matched = 0
    /\ neg_atoms = <<>>
    /\ p_idx_matches = <<>>
    /\ neg_surplus = 0
    /\ netCharge = 0
    /\ negIt = 1
    /\ posIt = 1
    /\ abpairs = <<>>
    /\ start_charge = 0
    /\ current_charge = 0
    /\ charge_diff = 0
    /\ already_moved = {}
    /\ transfers = 0
    /\ sumDelta = 0
    /\ lastCC = NoCC
    /\ balanceEntry = <<>>
    /\ stop = "none"

NextUncharge ==
    \/ UnchargeMatch
    \/ NegNeutralize
    \/ NegSkip
    \/ NetCharge
    \/ PosAtom
    \/ PosLower
    \/ PosLeave
    \/ UnchargeAgain

SpecUncharge == InitUncharge /\ [][NextUncharge]_vars

\* the steps of one call of unchargeInPlace
NextUnchargeOnce ==
    \/ UnchargeMatch
    \/ NegNeutralize
    \/ NegSkip
    \/ NetCharge
    \/ PosAtom
    \/ PosLower
    \/ PosLeave

\* single-threaded, synchronous execution: a call that can take a step
\* takes it
FairSpecUncharge ==
    InitUncharge /\ [][NextUnchargeOnce]_vars /\ WF_vars(NextUnchargeOnce)

-----------------------------------------------------------------------------
(* Properties of reionizeInPlace                                           *)

\* number of unordered pairs of atom indices
PairBound == (MaxAtoms * (MaxAtoms - 1)) \div 2

\* the atoms whose formal charge a step lowers, raises
Lowered == {a \in Atoms : mol'[a].fc < mol[a].fc}
Raised == {a \in Atoms : mol'[a].fc > mol[a].fc}

\* the hydrogen count and formal charge of every atom
ChargesAndHs(m) ==
    [a \in Atoms |-> <<m[a].fc, m[a].explH, getTotalNumHs(m[a])>>]

\* C1: the balancing loop of reionizeInPlace terminates, and it performs at
\* most N*(N-1)/2 proton transfers before it stops.
C1_BalancingTerminates ==
    /\ [](transfers <= PairBound)
    /\ (pc = "balance") ~> (pc = "done")

\* C1 witness: the loop has stopped after as many transfers as there are
\* pairs
C1_Witness == pc = "done" /\ transfers = PairBound

\* C5: a transfer is performed only between two different atoms whose
\* unordered pair is not recorded in already_moved, the step records the
\* pair, the set never loses a pair, and an iteration that selects a
\* recorded pair stops the loop without transferring.
C5_PairUsedOnce ==
    [][/\ already_moved \subseteq already_moved'
       /\ transfers' # transfers =>
             \E pa \in Atoms, ia \in Atoms :
                /\ pa # ia
                /\ Lowered = {pa} /\ Raised = {ia}
                /\ \A k \in already_moved : {k[1], k[2]} # {pa, ia}
                /\ \E k \in already_moved' \ already_moved :
                      {k[1], k[2]} = {pa, ia}
       /\ (stop' = "already_moved" /\ stop # "already_moved") =>
             /\ mol' = mol /\ transfers' = transfers /\ pc' = "done"
             /\ \E k \in already_moved :
                   /\ k[1] \in strongestProtonated(mol, abpairs).second
                         \cup weakestIonized(mol, abpairs).second
                   /\ k[2] \in strongestProtonated(mol, abpairs).second
                         \cup weakestIonized(mol, abpairs).second
      ]_vars

\* C5 witness: the loop was stopped by a recorded pair after two transfers
C5_Witness == stop = "already_moved" /\ transfers = 2

\* C6: the iteration that stops the loop on the same atom or on a recorded
\* pair changes no atom and returns normally, earlier mutations stay, and
\* a stop in the first iteration leaves the molecule as it was at entry of
\* the balancing loop.
C6_AbortKeepsMolecule ==
    /\ [][(pc = "balance" /\ stop' \in {"same_atom", "already_moved"}) =>
             (mol' = mol /\ pc' = "done" /\ transfers' = transfers)]_vars
    /\ []((stop \in {"same_atom", "already_moved"} /\ transfers = 0) =>
             mol = balanceEntry)

\* C6 witness: the loop was stopped on a recorded pair with the charges of
\* the earlier transfers still in place
C6_Witness ==
    /\ stop = "already_moved"
    /\ transfers > 0
    /\ ChargesAndHs(mol) # ChargesAndHs(balanceEntry)

\* C7: when the correction loop is left, current_charge - start_charge is
\* the sum over the rule applications of (cc.Charge - charge before), and
\* an application changes no atom the rule does not match.
C7_ChargeConservation ==
    /\ [](pc \in {"deficit", "balance", "done"} =>
             current_charge - start_charge = sumDelta)
    /\ [][(pc = "corr" /\ pc' = "corr") =>
             \A a \in Atoms \ SubstructMatch(mol, lastCC'.Smarts) :
                mol'[a] = mol[a]]_vars

\* C7 witness: the corrections have changed the total charge
C7_Witness == pc = "balance" /\ sumDelta = 2 /\ current_charge = 0

\* C8: a transfer happens only when both sites are found and the rank of
\* the strongest protonated site is strictly below the rank of the weakest
\* ionized site; otherwise the iteration ends the loop and changes no atom.
C8_TransferNeedsStrongerAcid ==
    [][pc = "balance" =>
          LET sp_res == strongestProtonated(mol, abpairs)
              wi_res == weakestIonized(mol, abpairs)
              stronger == /\ sp_res.found /\ wi_res.found
                          /\ sp_res.first < wi_res.first
          IN /\ transfers' # transfers => stronger
             /\ mol' # mol => stronger
             /\ ~stronger => (mol' = mol /\ pc' = "done")
      ]_vars

\* C8 witness: the loop was left because the acid found was not stronger,
\* after a transfer
C8_Witness == stop = "rank" /\ transfers > 0

\* the catalog indices whose protonated, ionized pattern matches
ProtRanks(m, pairs) ==
    {i \in 0..(Len(pairs) - 1) : SubstructMatch(m, pairs[i + 1].first) # {}}
IonRanks(m, pairs) ==
    {i \in 0..(Len(pairs) - 1) : SubstructMatch(m, pairs[i + 1].second) # {}}

\* C9: strongestProtonated reports the smallest catalog index whose
\* protonated pattern matches, weakestIonized the largest index whose
\* ionized pattern matches (the index in the catalog), each with the atoms
\* matched, and each reports nothing exactly when no index matches.
C9_ScansReportTrueRank ==
    LET sp_res == strongestProtonated(mol, abpairs)
        wi_res == weakestIonized(mol, abpairs)
        P == ProtRanks(mol, abpairs)
        I == IonRanks(mol, abpairs)
    IN /\ sp_res.found <=> P # {}
       /\ wi_res.found <=> I # {}
       /\ P # {} =>
             /\ sp_res.first \in P
             /\ \A i \in P : sp_res.first <= i
             /\ sp_res.second =
                   SubstructMatch(mol, abpairs[sp_res.first + 1].first)
       /\ I # {} =>
             /\ wi_res.first \in I
             /\ \A i \in I : wi_res.first >= i
             /\ wi_res.second =
                   SubstructMatch(mol, abpairs[wi_res.first + 1].second)

\* C9 witness: in the balancing loop each scan passes a pair that does not
\* match before it finds one
C9_Witness ==
    /\ pc = "balance"
    /\ ProtRanks(mol, abpairs) = {Len(abpairs) - 1}
    /\ IonRanks(mol, abpairs) = {0}

-----------------------------------------------------------------------------
(* Properties of unchargeInPlace                                           *)

\* lines 447-456 as a whole: the atoms the loop over sites neutralizes,
\* from position i on, with surplus left
RECURSIVE NegPass(_, _, _, _)

NegPass(m, sites, i, surplus) ==
    IF i > Len(sites) THEN {}
    ELSE LET idx == sites[i][2]
         IN IF canNeutralize(m[idx])
            THEN {idx} \cup (IF surplus - 1 = 0 THEN {}
                             ELSE NegPass(m, sites, i + 1, surplus - 1))
            ELSE NegPass(m, sites, i + 1, surplus)

\* the atoms the negative pass of a call on m neutralizes
NegPassOf(m, nb, canonical, ranking, force) ==
    LET surplus == negSurplusOf(m, nb, canonical, ranking, force)
    IN IF surplusAllows(surplus)
       THEN NegPass(m, negAtomsOf(m, nb, canonical, ranking), 1, surplus)
       ELSE {}

\* the renumberings of the atoms: f[a] is the new index of atom a
Renumberings ==
    {f \in [UAtoms -> UAtoms] : \A a, b \in UAtoms : a # b => f[a] # f[b]}

OldIndex(f, b) == CHOOSE a \in UAtoms : f[a] = b

\* the molecule, its neighbour lists and its canonical ranks under f
RenumberMol(m, f) == [b \in UAtoms |-> m[OldIndex(f, b)]]
RenumberNbrs(nb, f) ==
    [b \in UAtoms |->
        [i \in DOMAIN nb[OldIndex(f, b)] |-> f[nb[OldIndex(f, b)][i]]]]
RenumberRanks(ranking, f) == [b \in UAtoms |-> ranking[OldIndex(f, b)]]

\* the kept entries of neg_atoms that are acid sites of the molecule the call
\* was entered with
AcidsAtEntry == a_atoms(molCall, nbrs, df_canonicalOrdering, canon)
SitesKept == {p[2] : p \in URange(neg_atoms)}

\* the positions in AcidsAtEntry of the acid sites that have c as a
\* neighbour, and of those that have c as their first positive neighbour
AcidsNextTo(c) ==
    {i \in DOMAIN AcidsAtEntry : c \in URange(nbrs[AcidsAtEntry[i][2]])}
AcidsFirstNextTo(c) ==
    {i \in DOMAIN AcidsAtEntry :
        firstPositiveNbr(molCall, nbrs, AcidsAtEntry[i][2], 1) = c}

\* C2: a second run of unchargeInPlace on the result of a first run changes
\* no atom's formal charge, explicit hydrogen count or no-implicit flag
C2_SecondRunChangesNothing ==
    (pc = "udone" /\ call = 2) =>
        \A a \in UAtoms :
            /\ mol[a].fc = afterFirst[a].fc
            /\ mol[a].explH = afterFirst[a].explH
            /\ mol[a].noImplicit = afterFirst[a].noImplicit

\* C3: with df_force off the negative pass neutralizes at most
\* max(0, L - q_matched) sites, L the length of neg_atoms; none when
\* q_matched >= L
C3_NeutralizedWithinSurplus ==
    (pc = "net" /\ ~df_force) =>
        Cardinality(neutralized) <= Max(0, Len(neg_atoms) - q_matched)

\* C4: with df_canonicalOrdering on, the canonical ranks of the atoms the
\* negative pass neutralizes are the same under every renumbering of the
\* atoms that keeps each atom's canonical rank
C4_NumberingIndependent ==
    (pc = "net" /\ call = 1 /\ df_canonicalOrdering) =>
        \A f \in Renumberings :
            {RenumberRanks(canon, f)[b] :
                b \in NegPassOf(RenumberMol(molCall, f),
                                RenumberNbrs(nbrs, f), TRUE,
                                RenumberRanks(canon, f), df_force)}
              = {canon[a] : a \in neutralized}

Zwitterion(p, a) ==
    /\ p # a
    /\ \A x \in UAtoms : molCall[x].fc # 0 <=> x \in {p, a}
    /\ molCall[p].fc = 1
    /\ pos_h(molCall, nbrs, p)
    /\ neg_acid(molCall, nbrs, a)
    /\ p \notin URange(nbrs[a])

\* C11 as stated: a zwitterion ends with every atom at charge 0, the anion
\* with one hydrogen more and the cation with one hydrogen less
C11_ZwitterionCationLosesH ==
    (pc = "udone" /\ call = 1) =>
        \A p, a \in UAtoms :
            Zwitterion(p, a) =>
                /\ \A x \in UAtoms : mol[x].fc = 0
                /\ getTotalNumHs(mol[a]) = getTotalNumHs(molCall[a]) + 1
                /\ getTotalNumHs(mol[p]) = getTotalNumHs(molCall[p]) - 1

\* C11, amended: a zwitterion ends with every atom at charge 0 and the
\* anion with one hydrogen more; the cation ends with one hydrogen less
\* when it is neither carbon nor an early atom, and with one more otherwise
C11_ZwitterionNeutralized ==
    (pc = "udone" /\ call = 1) =>
        \A p, a \in UAtoms :
            Zwitterion(p, a) =>
                /\ \A x \in UAtoms : mol[x].fc = 0
                /\ getTotalNumHs(mol[a]) = getTotalNumHs(molCall[a]) + 1
                /\ getTotalNumHs(mol[p]) =
                       getTotalNumHs(molCall[p])
                         + (IF molCall[p].elem # "C"
                               /\ ~isEarlyAtom(molCall[p].elem)
                            THEN -1 ELSE 1)

\* a zwitterion with an ammonium-like cation, after the call
C11_Witness ==
    /\ pc = "udone" /\ call = 1
    /\ \E p, a \in UAtoms :
        /\ Zwitterion(p, a)
        /\ molCall[p].elem = "N"
        /\ mol[p].fc = 0 /\ mol[a].fc = 0
        /\ getTotalNumHs(mol[p]) = 0

-----------------------------------------------------------------------------
(* Further properties of reionizeInPlace                                   *)

\* the catalog has no protonated match or no ionized match in m
NoSitePair(m) ==
    \/ ~strongestProtonated(m, abpairs).found
    \/ ~weakestIonized(m, abpairs).found

\* C12: when the corrections loop ends with the molecule as it was at
\* entry (no rule of d_ccs matched) and the catalog has no protonated or no
\* ionized match, no later step changes an atom's charge or hydrogen
\* counts, no proton is moved, and the call returns through the break for a
\* missing site
C12_NoMatchNoChange ==
    [][/\ (pc = "corr" /\ pc' # "corr"
           /\ ChargesAndHs(mol) = ChargesAndHs(molCall))
           => (charge_diff' = 0 /\ mol' = mol)
       /\ (pc \in {"deficit", "balance"} /\ charge_diff = 0
           /\ transfers = 0
           /\ ChargesAndHs(mol) = ChargesAndHs(molCall)
           /\ NoSitePair(molCall))
           => /\ mol' = mol
              /\ charge_diff' = 0
              /\ transfers' = 0
              /\ pc' \in {"balance", "done"}
              /\ pc' = "done" => stop' = "absent"]_vars

\* a cation with a protonated match and no ionized match, returned from
C12_Witness ==
    /\ pc = "done"
    /\ charge_diff = 0 /\ sumDelta = 0
    /\ stop = "absent" /\ transfers = 0
    /\ getFormalCharge(molCall) > 0
    /\ strongestProtonated(molCall, abpairs).found
    /\ ~weakestIonized(molCall, abpairs).found
    /\ ChargesAndHs(mol) = ChargesAndHs(molCall)

\* C13: in the balancing loop the sum of the formal charges stays what it
\* was when the loop was entered; every transfer lowers one atom's charge
\* by exactly one, raises another atom's charge by exactly one and leaves
\* every other charge alone
C13_BalancingKeepsTotalCharge ==
    /\ [](pc \in {"balance", "done"}
            => getFormalCharge(mol) = getFormalCharge(balanceEntry))
    /\ [][(pc = "balance" /\ mol' # mol) =>
             \E pa \in Atoms, ia \in Atoms :
                /\ pa # ia
                /\ mol'[pa].fc = mol[pa].fc - 1
                /\ mol'[ia].fc = mol[ia].fc + 1
                /\ \A x \in Atoms \ {pa, ia} : mol'[x].fc = mol[x].fc
                /\ transfers' = transfers + 1]_vars

\* the loop was left after two transfers that changed the molecule
C13_Witness ==
    /\ pc = "done"
    /\ transfers = 2
    /\ mol # balanceEntry
    /\ getFormalCharge(mol) # 0

\* delta, and the number of deprotonations the compensation loop has made
Delta == current_charge - start_charge
Deprotonations == Delta - charge_diff

\* C14: the compensation loop changes the molecule only while the charge
\* after the corrections is nonzero and charge_diff is positive; each pass
\* lowers one strongest protonated site by one and charge_diff by one; the
\* loop is left when charge_diff is zero or no site is found; the total
\* charge it leaves is current_charge - k with 0 <= k <= delta
C14_DeficitCompensation ==
    /\ [](pc \in {"deficit", "balance", "done"} =>
            /\ 0 <= Deprotonations /\ Deprotonations <= Max(0, Delta)
            /\ (current_charge = 0 \/ Delta <= 0) => Deprotonations = 0
            /\ getFormalCharge(IF pc = "deficit" THEN mol ELSE balanceEntry)
                  = current_charge - Deprotonations)
    /\ [][pc = "deficit" =>
             /\ mol' # mol =>
                  /\ current_charge # 0 /\ charge_diff > 0
                  /\ charge_diff' = charge_diff - 1
                  /\ \E pa \in strongestProtonated(mol, abpairs).second :
                        /\ mol'[pa].fc = mol[pa].fc - 1
                        /\ \A x \in Atoms \ {pa} : mol'[x] = mol[x]
             /\ pc' # "deficit" =>
                  /\ mol' = mol /\ charge_diff' = charge_diff
                  /\ charge_diff = 0
                        \/ ~strongestProtonated(mol, abpairs).found
                        \/ charge_diff < 0]_vars

\* the loop was left for want of a site after two deprotonations
C14_Witness ==
    /\ pc = "balance"
    /\ Deprotonations = 2
    /\ charge_diff > 0
    /\ ~strongestProtonated(mol, abpairs).found

-----------------------------------------------------------------------------
(* Further properties of unchargeInPlace                                   *)

\* the positions of neg_atoms that hold non-acid sites, and acid sites, of
\* the molecule the call was entered with
NonAcidPart ==
    {i \in DOMAIN neg_atoms : ~neg_acid(molCall, nbrs, neg_atoms[i][2])}
AcidPart == DOMAIN neg_atoms \ NonAcidPart

\* C15: with df_canonicalOrdering on, the entries of neg_atoms carry the
\* canonical rank of their atom and each of the two match lists is in
\* ascending (canonical rank, index) order, whatever q_matched is; with it
\* off the key is the atom index
C15_ListsInCanonicalOrder ==
    (pc \in {"neg", "net"} /\ call = 1) =>
        \A i \in DOMAIN neg_atoms :
            /\ neg_atoms[i][1] = IF df_canonicalOrdering
                                 THEN canon[neg_atoms[i][2]]
                                 ELSE neg_atoms[i][2] - 1
            /\ \A j \in DOMAIN neg_atoms :
                 (i < j /\ (i \in AcidPart <=> j \in AcidPart)) =>
                     PairLess(neg_atoms[i], neg_atoms[j])

\* C16: the positive pass is entered only with a positive net charge; in it
\* netCharge is the sum of the formal charges and never negative, no
\* pos_h-matched atom has a negative charge, every step that changes a
\* charge lowers the charge of the atom in turn and netCharge by exactly
\* one, and with netCharge at zero the next step ends the pass
C16_PositivePassStaysAboveZero ==
    /\ [](pc \in {"pos", "while"} =>
            /\ netCharge >= 0
            /\ netCharge = getFormalCharge(mol)
            /\ \A i \in DOMAIN p_idx_matches : mol[p_idx_matches[i]].fc >= 0)
    /\ [][/\ (pc = "net" /\ pc' = "pos") => getFormalCharge(mol) > 0
          /\ (pc \in {"pos", "while"}
                /\ \E x \in UAtoms : mol'[x].fc # mol[x].fc) =>
                LET idx == p_idx_matches[posIt]
                IN /\ netCharge > 0
                   /\ mol'[idx].fc = mol[idx].fc - 1
                   /\ netCharge' = netCharge - 1
                   /\ \A x \in UAtoms \ {idx} : mol'[x].fc = mol[x].fc
          /\ (pc \in {"pos", "while"} /\ netCharge = 0) =>
                (pc' = "udone" /\ mol' = mol)
          /\ (pc \in {"pos", "while"} /\ netCharge' = 0) =>
                pc' \in {"udone", "while"}]_vars

\* the pass ended with net charge zero before the last pos_h match had its
\* turn
C16_Witness ==
    /\ pc = "udone"
    /\ netCharge = 0
    /\ getFormalCharge(mol) = 0
    /\ posIt < Len(p_idx_matches)
    /\ mol[p_idx_matches[posIt]].fc < molCall[p_idx_matches[posIt]].fc
    /\ mol[p_idx_matches[posIt + 1]].fc > 0

\* an early atom without any hydrogen
EarlyWithoutHs(at) == isEarlyAtom(at.elem) /\ getTotalNumHs(at) = 0

\* C17: a turn of the negative pass on an early atom without hydrogens
\* changes neither the molecule nor neg_surplus and the pass goes on to the
\* next entry if there is one; a turn on any other site raises that atom's
\* charge by exactly one, sets its no-implicit flag, lowers neg_surplus by
\* one and touches no other atom
C17_EarlyAtomSkipped ==
    [][pc = "neg" =>
         LET idx == neg_atoms[negIt][2]
         IN IF EarlyWithoutHs(mol[idx])
            THEN /\ mol' = mol
                 /\ neg_surplus' = neg_surplus
                 /\ IF negIt < Len(neg_atoms)
                    THEN pc' = "neg" /\ negIt' = negIt + 1
                    ELSE pc' = "net"
            ELSE /\ mol'[idx].fc = mol[idx].fc + 1
                 /\ mol'[idx].noImplicit
                 /\ neg_surplus' = neg_surplus - 1
                 /\ \A x \in UAtoms \ {idx} : mol'[x] = mol[x]]_vars

\* an early atom without hydrogens was passed over and a later entry of
\* neg_atoms was neutralized
C17_Witness ==
    /\ pc = "net"
    /\ \E i, j \in DOMAIN neg_atoms :
        /\ i < j
        /\ EarlyWithoutHs(molCall[neg_atoms[i][2]])
        /\ mol[neg_atoms[i][2]] = molCall[neg_atoms[i][2]]
        /\ neg_atoms[j][2] \in neutralized
        /\ mol[neg_atoms[j][2]].fc = 0

\* C18: neg_atoms holds the neg-matched atoms that are not neg_acid-matched,
\* then neg_acid-matched atoms, and no atom twice; the negative pass raises
\* an atom's charge at most once
C18_NegAtomsStructure ==
    (pc \in {"neg", "net"}) =>
        /\ \A i, j \in DOMAIN neg_atoms :
              i # j => neg_atoms[i][2] # neg_atoms[j][2]
        /\ \A i \in NonAcidPart, j \in AcidPart : i < j
        /\ {neg_atoms[i][2] : i \in NonAcidPart}
              = {a \in UAtoms : neg(molCall, nbrs, a)
                                  /\ ~neg_acid(molCall, nbrs, a)}
        /\ {neg_atoms[i][2] : i \in AcidPart}
              = {AcidsAtEntry[i][2] : i \in
                   {k \in DOMAIN AcidsAtEntry :
                      LET c == firstPositiveNbr(molCall, nbrs,
                                                AcidsAtEntry[k][2], 1)
                      IN c = 0 \/ \A n \in AcidsFirstNextTo(c) : k <= n}}
        /\ \A a \in UAtoms :
              mol[a].fc = molCall[a].fc + (IF a \in neutralized THEN 1 ELSE 0)
        /\ neutralized \subseteq SitesKept

\* a list with a non-acid site followed by an acid site that neg matches
\* too, both neutralized
C18_Witness ==
    /\ pc = "net"
    /\ NonAcidPart # {} /\ AcidPart # {}
    /\ \E i \in AcidPart : neg(molCall, nbrs, neg_atoms[i][2])
    /\ Cardinality(neutralized) >= 2

\* C19: every call of unchargeInPlace returns; the negative pass moves
\* forward through neg_atoms one entry a turn, the positive pass moves
\* forward through p_idx_matches one atom at a time, neither list holds an
\* atom twice, and neither pass leaves its list
C19_UnchargeTerminates ==
    /\ (pc = "ustart") ~> (pc = "udone")
    /\ [](/\ \A i, j \in DOMAIN p_idx_matches :
                i # j => p_idx_matches[i] # p_idx_matches[j]
          /\ \A i, j \in DOMAIN neg_atoms :
                i # j => neg_atoms[i][2] # neg_atoms[j][2]
          /\ pc = "neg" => negIt \in DOMAIN neg_atoms
          /\ pc \in {"pos", "while"} => posIt \in DOMAIN p_idx_matches)
    /\ [][/\ (pc = "neg" /\ pc' = "neg") => negIt' = negIt + 1
          /\ (pc = "neg" /\ pc' # "neg") => pc' = "net"
          /\ (pc = "pos") => (pc' = "while" /\ posIt' = posIt)
          /\ (pc = "while" /\ pc' = "while") =>
                (posIt' = posIt /\ netCharge' = netCharge - 1)
          /\ (pc = "while" /\ pc' = "pos") => posIt' = posIt + 1
          /\ (pc = "while" /\ pc' \notin {"while", "pos"}) => pc' = "udone"
         ]_vars

\* a call has returned after both passes went through more than one entry
C19_Witness ==
    /\ pc = "udone"
    /\ negIt >= 2
    /\ posIt >= 2
    /\ Cardinality(neutralized) >= 2

\* the atoms of the negative-site list and the pos_h-matched atoms
NegSites == {neg_atoms[i][2] : i \in DOMAIN neg_atoms}
PosHSites == URange(p_idx_matches)

\* C20: from the list building of a call on, an atom of neg_atoms came in
\* with -1 and has -1 or 0, a pos_h-matched atom has a charge between 0 and
\* the positive charge it came in with, every other atom has the charge it
\* came in with; and no step of a call raises the magnitude of a charge or
\* takes it across zero
C20_ChargesOnlyShrink ==
    /\ [](pc \in {"neg", "net", "pos", "while", "udone"} =>
            \A a \in UAtoms :
                /\ a \in NegSites =>
                      molCall[a].fc = -1 /\ mol[a].fc \in {-1, 0}
                /\ a \in PosHSites =>
                      molCall[a].fc > 0 /\ mol[a].fc \in 0..molCall[a].fc
                /\ a \notin NegSites \cup PosHSites =>
                      mol[a].fc = molCall[a].fc)
    /\ [][\A a \in UAtoms :
            \/ mol'[a].fc = mol[a].fc
            \/ mol[a].fc < 0 /\ mol'[a].fc \in mol[a].fc..0
            \/ mol[a].fc > 0 /\ mol'[a].fc \in 0..mol[a].fc]_vars

\* a returned call that raised an anion to 0, lowered a cation, left a
\* listed anion at -1 and left an unlisted charged atom as it was
C20_Witness ==
    /\ pc = "udone"
    /\ \E a \in NegSites : mol[a].fc = 0
    /\ \E a \in NegSites : mol[a].fc = -1
    /\ \E a \in PosHSites : mol[a].fc < molCall[a].fc
    /\ \E a \in UAtoms \ (NegSites \cup PosHSites) : mol[a].fc # 0

=============================================================================
